---- MODULE Spec2Model ----
(***************************************************************************)
(* Linkpad: the entry store, the edit round trip, the merge and the search *)
(* engine of src/linkpad.py, as a state machine over the persisted         *)
(* entries file.  One action is one run of a command.                      *)
(*                                                                         *)
(* Strings are sequences of one-character strings, so that substring,      *)
(* prefix and case-folding are computed.  An entry is a function from      *)
(* field names to values; an absent optional field is absent from its      *)
(* DOMAIN, as a key is absent from the Python dict.                        *)
(***************************************************************************)
EXTENDS Integers, Sequences, FiniteSets, TLC

VARIABLES file, db_entry_list, archive_dirs, nextId, clock, last, ret, check

vars == <<file, db_entry_list, archive_dirs, nextId, clock, last, ret, check>>

(***************************************************************************)
(* Bounds                                                                  *)
(***************************************************************************)
MaxId == 2
MaxClock == 3

(***************************************************************************)
(* Python values                                                           *)
(***************************************************************************)
None == [isNone |-> TRUE, val |-> <<>>]

Some(v) == [isNone |-> FALSE, val |-> v]

ListOrNone(l) == IF Len(l) > 0 THEN Some(l) ELSE None

Min(S) == CHOOSE x \in S : \A y \in S : x <= y

Range(s) == {s[i] : i \in 1..Len(s)}

(***************************************************************************)
(* str                                                                     *)
(***************************************************************************)
Alphabet == <<" ", "+", "-", "/", ":", "1", "2", "3", "4", "5", "A", "B", "P",
              "a", "b", "c", "d", "e", "f", "g", "h", "i", "l", "n", "p", "r",
              "s", "t", "u", "v", "x", "y">>

Ord(c) == CHOOSE i \in 1..Len(Alphabet) : Alphabet[i] = c

LowerChar(c) == CASE c = "A" -> "a" [] c = "B" -> "b" [] c = "P" -> "p" [] OTHER -> c

Lower(s) == [i \in 1..Len(s) |-> LowerChar(s[i])]

\* s[:n]
Prefix(s, n) == SubSeq(s, 1, IF n < Len(s) THEN n ELSE Len(s))

\* s[n:]
Suffix(s, n) == SubSeq(s, n + 1, Len(s))

\* needle in hay
Contains(needle, hay) ==
    \E i \in 0..(Len(hay) - Len(needle)) : SubSeq(hay, i + 1, i + Len(needle)) = needle

\* a < b, as Python orders str
RECURSIVE StrLess(_, _)
StrLess(a, b) ==
    IF Len(b) = 0 THEN FALSE
    ELSE IF Len(a) = 0 THEN TRUE
    ELSE IF a[1] # b[1] THEN Ord(a[1]) < Ord(b[1])
    ELSE StrLess(Tail(a), Tail(b))

\* ' '.join(l)
RECURSIVE Join(_)
Join(l) ==
    IF Len(l) = 0 THEN <<>>
    ELSE IF Len(l) = 1 THEN l[1]
    ELSE l[1] \o <<" ">> \o Join(Tail(l))

\* sorted(l) for a list of str
RECURSIVE InsertStr(_, _)
InsertStr(s, l) ==
    IF Len(l) = 0 THEN <<s>>
    ELSE IF StrLess(s, l[1]) THEN <<s>> \o l
    ELSE <<l[1]>> \o InsertStr(s, Tail(l))

RECURSIVE SortedStrs(_)
SortedStrs(l) == IF Len(l) = 0 THEN <<>> ELSE InsertStr(l[Len(l)], SortedStrs(SubSeq(l, 1, Len(l) - 1)))

\* list(dict.fromkeys(l)): first occurrences, in order
RECURSIVE FromKeys(_)
FromKeys(l) ==
    IF Len(l) = 0 THEN <<>>
    ELSE LET init == FromKeys(SubSeq(l, 1, Len(l) - 1))
             x == l[Len(l)]
         IN IF x \in Range(init) THEN init ELSE Append(init, x)

\* "{0.netloc}".format(urllib.parse.urlsplit(url)): the text between "//" after the
\* scheme and the next "/"
IndexOf(c, s) == IF c \in Range(s) THEN Min({i \in 1..Len(s) : s[i] = c}) ELSE 0

NetLoc(url) ==
    LET colon == IndexOf(":", url)
        rest == IF colon > 0 THEN Suffix(url, colon) ELSE url
    IN IF Prefix(rest, 2) = <<"/", "/">>
       THEN LET host == Suffix(rest, 2)
                slash == IndexOf("/", host)
            IN IF slash > 0 THEN Prefix(host, slash - 1) ELSE host
       ELSE <<>>

(***************************************************************************)
(* Entry fields                                                            *)
(***************************************************************************)
DB_ENTRY_REQUIRED_FIELDS == <<"id", "url", "title", "tags", "created_date">>

DB_ENTRY_OPTIONAL_FIELDS ==
    <<"archived", "archived_date", "extended", "removed", "removed_date", "removed_reason">>

DB_ENTRY_USEREDIT_FIELDS == DB_ENTRY_REQUIRED_FIELDS

\* the fields the codec treats as dates
DateFields == {"created_date", "archived_date", "removed_date"}

\* the optional fields that hold a str in every form of an entry
StrFields == {"extended", "removed_reason"}

\* the entry with field k removed (del entry[k])
Without(entry, k) == [f \in DOMAIN entry \ {k} |-> entry[f]]

\* the entry with entry[k] = v
With(entry, k, v) == [f \in DOMAIN entry \cup {k} |-> IF f = k THEN v ELSE entry[f]]

\* entry.get(k, default)
Get(entry, k, default) == IF k \in DOMAIN entry THEN entry[k] ELSE default

(***************************************************************************)
(* datetime.  An instant is a number of ticks since the epoch, UTC;        *)
(* TicksPerSec ticks make one second (datetime.now() has sub-second        *)
(* resolution, the two strftime formats have none).  A formatted date is   *)
(* the text written by strftime: its format, the wall-clock seconds shown  *)
(* and the UTC offset shown by %z.                                         *)
(***************************************************************************)
TicksPerSec == 2

\* the offset of the local zone, in seconds (astimezone(tz=None))
LocalOffset == 1

FormatPersisted == "%Y-%m-%dT%H:%M:%SZ%z"

FormatEditdoc == "%Y-%m-%d %H:%M:%S %z"

datetime_utc_to_local(utc_dt) == [instant |-> utc_dt, off |-> LocalOffset]

strftime(date, datetime_format) ==
    [fmt |-> datetime_format, wall |-> (date.instant \div TicksPerSec) + date.off, off |-> date.off]

\* strptime raises ValueError when the text is not in the format
strptime_ok(text, datetime_format) == text.fmt = datetime_format

\* strptime(text, format).astimezone(utc)
strptime_utc(text, datetime_format) == (text.wall - text.off) * TicksPerSec

db_entry_externalize(entry, datetime_format, datetime_as_local) ==
    [field \in DOMAIN entry |->
        IF field \in DateFields
        THEN LET date == [instant |-> entry[field], off |-> 0]
             IN strftime(IF datetime_as_local THEN datetime_utc_to_local(entry[field]) ELSE date,
                         datetime_format)
        ELSE entry[field]]

\* the optional fields db_entry_internalize_trim deletes
TrimmedFields(entry) ==
    {field \in Range(DB_ENTRY_OPTIONAL_FIELDS) \cap DOMAIN entry :
        field \in StrFields /\ Len(entry[field]) = 0}

db_entry_internalize_trim(entry) == [field \in DOMAIN entry \ TrimmedFields(entry) |-> entry[field]]

\* db_entry_internalize returns (does not raise)
db_entry_internalize_ok(entry, datetime_format) ==
    \A field \in DOMAIN db_entry_internalize_trim(entry) \cap DateFields :
        strptime_ok(entry[field], datetime_format)

db_entry_internalize(entry, datetime_format) ==
    LET trimmed == db_entry_internalize_trim(entry)
    IN [field \in DOMAIN trimmed |->
           IF field \in DateFields THEN strptime_utc(trimmed[field], datetime_format)
           ELSE trimmed[field]]

\* the user-editable document of an entry (all_fields = False: the user-edit fields)
db_entry_to_editdoc(entry, all_fields) ==
    LET fields == IF all_fields
                  THEN Range(DB_ENTRY_REQUIRED_FIELDS) \cup Range(DB_ENTRY_OPTIONAL_FIELDS)
                  ELSE Range(DB_ENTRY_USEREDIT_FIELDS)
        doc == [field \in fields \cap DOMAIN entry |-> entry[field]]
    IN db_entry_externalize(doc, FormatEditdoc, TRUE)

\* the fields db_entry_from_editdoc copies from the document
EditdocFields(doc) ==
    Range(DB_ENTRY_REQUIRED_FIELDS) \cup (Range(DB_ENTRY_OPTIONAL_FIELDS) \cap DOMAIN doc)

\* db_entry_from_editdoc returns: no required field is missing and every date parses
db_entry_from_editdoc_ok(doc) ==
    /\ Range(DB_ENTRY_REQUIRED_FIELDS) \subseteq DOMAIN doc
    /\ db_entry_internalize_ok([field \in EditdocFields(doc) |-> doc[field]], FormatEditdoc)

db_entry_from_editdoc(doc) ==
    db_entry_internalize([field \in EditdocFields(doc) |-> doc[field]], FormatEditdoc)

(***************************************************************************)
(* Store                                                                   *)
(***************************************************************************)
\* sorted(db_entry_list, key=created_date): stable
RECURSIVE InsertByDate(_, _)
InsertByDate(entry, l) ==
    IF Len(l) = 0 THEN <<entry>>
    ELSE IF l[Len(l)].created_date <= entry.created_date THEN Append(l, entry)
    ELSE Append(InsertByDate(entry, SubSeq(l, 1, Len(l) - 1)), l[Len(l)])

RECURSIVE SortedByDate(_)
SortedByDate(l) ==
    IF Len(l) = 0 THEN <<>>
    ELSE InsertByDate(l[Len(l)], SortedByDate(SubSeq(l, 1, Len(l) - 1)))

\* the entries are written in the order of the in-memory list
db_save_db_unsorted(entries) ==
    [i \in 1..Len(entries) |-> db_entry_externalize(entries[i], FormatPersisted, FALSE)]

\* the records db_save_db writes to entries.json
db_save_db(entries) ==
    LET sorted == SortedByDate(entries)
    IN [i \in 1..Len(sorted) |-> db_entry_externalize(sorted[i], FormatPersisted, FALSE)]

\* the list db_load_db reads from entries.json
db_load_db(records) ==
    [i \in 1..Len(records) |-> db_entry_internalize(records[i], FormatPersisted)]

UrlMatches(entries, url) == {pos \in 1..Len(entries) : entries[pos].url = url}

\* db_entry_get without the check for several matches
db_entry_get_never_raises(entries, url) == FALSE

\* db_entry_get raises "Internal Error: found multiple matching entries"
db_entry_get_raises(entries, url) == Cardinality(UrlMatches(entries, url)) > 1

db_entry_get(entries, url) ==
    IF UrlMatches(entries, url) # {} THEN Some(entries[Min(UrlMatches(entries, url))]) ELSE None

Digits == <<"1", "2", "3", "4", "5">>

\* the n-th id db_entry_generate_id draws: uuid4 values, taken as never repeating
db_entry_generate_id(n) == <<Digits[n], "a">>

\* changed is set as soon as the ids match
EntryChangedWhenFound(old_entry, new_entry) == old_entry.id = new_entry.id

\* only the first of the two key loops is run
EntryChangedOldKeysOnly(old_entry, new_entry) ==
    \E key \in DOMAIN old_entry : key \notin DOMAIN new_entry \/ old_entry[key] # new_entry[key]

\* old_entry and new_entry differ in a field's value or in which fields are present
EntryChanged(old_entry, new_entry) ==
    \/ \E key \in DOMAIN old_entry :
          key \notin DOMAIN new_entry \/ old_entry[key] # new_entry[key]
    \/ \E key \in DOMAIN new_entry :
          key \notin DOMAIN old_entry \/ old_entry[key] # new_entry[key]

\* one turn of db_entry_list_update's outer loop
UpdateOne(st, new_entry) ==
    LET found == {pos \in 1..Len(st.db) : st.db[pos].id = new_entry.id}
    IN IF found # {}
       THEN IF EntryChanged(st.db[Min(found)], new_entry)
            THEN [db |-> [st.db EXCEPT ![Min(found)] = new_entry],
                  changed_list |-> Append(st.changed_list, new_entry)]
            ELSE st
       ELSE [db |-> Append(st.db, new_entry),
             changed_list |-> Append(st.changed_list, new_entry)]

RECURSIVE UpdateLoop(_, _)
UpdateLoop(st, entry_list) ==
    IF Len(entry_list) = 0 THEN st
    ELSE UpdateLoop(UpdateOne(st, entry_list[1]), Tail(entry_list))

\* db_entry_list_update: the list after the call (it is updated in place) and what
\* the call returns
db_entry_list_update(entries, entry_list) ==
    LET st == UpdateLoop([db |-> entries, changed_list |-> <<>>], entry_list)
    IN [db |-> st.db, ret |-> ListOrNone(st.changed_list)]

(***************************************************************************)
(* Search                                                                  *)
(***************************************************************************)
db_entry_search_match(entry, search_arg) ==
    IF Prefix(search_arg, 6) = <<"t", "i", "t", "l", "e", ":">>
    THEN LET val == Suffix(search_arg, 6)
         IN IF Len(val) > 0 THEN Contains(Lower(val), Lower(entry.title))
            ELSE Len(entry.title) = 0
    ELSE IF Prefix(search_arg, 4) = <<"t", "a", "g", ":">>
    THEN LET val == Suffix(search_arg, 4)
         IN IF Len(val) > 0
            THEN \E i \in 1..Len(entry.tags) : Contains(Lower(val), Lower(entry.tags[i]))
            ELSE Len(entry.tags) = 0
    ELSE IF Prefix(search_arg, 5) = <<"s", "i", "t", "e", ":">>
    THEN LET val == Suffix(search_arg, 5)
             url_domain == NetLoc(entry.url)
         IN IF Len(val) > 0 THEN Contains(Lower(val), Lower(url_domain))
            ELSE Len(url_domain) = 0
    ELSE IF Prefix(search_arg, 4) = <<"u", "r", "l", ":">>
    THEN LET val == Suffix(search_arg, 4)
         IN IF Len(val) > 0 THEN Contains(Lower(val), Lower(entry.url))
            ELSE Len(entry.url) = 0
    ELSE IF Prefix(search_arg, 3) = <<"i", "d", ":">>
    THEN LET val == Suffix(search_arg, 3)
         IN IF Len(val) > 0 THEN Contains(Lower(val), Lower(Prefix(entry.id, Len(val))))
            ELSE Len(entry.id) = 0
    ELSE IF Prefix(search_arg, 9) = <<"a", "r", "c", "h", "i", "v", "e", "d", ":">>
    THEN LET val == (Lower(Suffix(search_arg, 9)) = <<"t", "r", "u", "e">>)
         IN Get(entry, "archived", FALSE) = val
    ELSE LET string == entry.id \o <<" ">> \o entry.title \o <<" ">> \o entry.url
                       \o <<" ">> \o Join(entry.tags)
         IN Contains(Lower(search_arg), Lower(string))

search_all_list(search_args) ==
    {Suffix(search_args[i], 1) : i \in {j \in 1..Len(search_args) : search_args[j][1] = "+"}}

search_not_list(search_args) ==
    {Suffix(search_args[i], 1) : i \in {j \in 1..Len(search_args) : search_args[j][1] = "-"}}

search_any_list(search_args) ==
    {search_args[i] : i \in {j \in 1..Len(search_args) : search_args[j][1] \notin {"+", "-"}}}

\* the any-of terms are tried only when there is no all-of term
SearchKeepsExclusiveModes(entry, search_args, include_removed) ==
    /\ ~(Get(entry, "removed", FALSE) /\ ~include_removed)
    /\ ~\E search_arg \in search_not_list(search_args) : db_entry_search_match(entry, search_arg)
    /\ IF search_all_list(search_args) # {}
       THEN \A search_arg \in search_all_list(search_args) : db_entry_search_match(entry, search_arg)
       ELSE \/ search_any_list(search_args) = {}
            \/ \E search_arg \in search_any_list(search_args) :
                  db_entry_search_match(entry, search_arg)

\* the entry is appended to the result of db_entry_list_search
SearchKeeps(entry, search_args, include_removed) ==
    /\ ~(Get(entry, "removed", FALSE) /\ ~include_removed)
    /\ ~\E search_arg \in search_not_list(search_args) : db_entry_search_match(entry, search_arg)
    /\ \A search_arg \in search_all_list(search_args) : db_entry_search_match(entry, search_arg)
    /\ \/ search_any_list(search_args) = {}
       \/ \E search_arg \in search_any_list(search_args) : db_entry_search_match(entry, search_arg)

\* the positions of the entries db_entry_list_search selects, in list order
SearchPositions(entries, search_args, include_removed) ==
    {pos \in 1..Len(entries) : SearchKeeps(entries[pos], search_args, include_removed)}

RECURSIVE PickPositions(_, _, _)
PickPositions(entries, positions, from) ==
    IF from > Len(entries) THEN <<>>
    ELSE (IF from \in positions THEN <<entries[from]>> ELSE <<>>)
         \o PickPositions(entries, positions, from + 1)

\* the entry list is returned as it is, also when it is empty
db_entry_list_search_returns_empty(entries, search_args, include_removed) ==
    Some(PickPositions(entries, SearchPositions(entries, search_args, include_removed), 1))

db_entry_list_search(entries, search_args, include_removed) ==
    ListOrNone(PickPositions(entries, SearchPositions(entries, search_args, include_removed), 1))

(***************************************************************************)
(* The edit session.  What the user does in $EDITOR is an input: a kind of *)
(* change, the document it is made to, and which alternative value.        *)
(***************************************************************************)
Http(host) == <<"h", "t", "t", "p", ":", "/", "/">> \o host

Urls == <<Http(<<"a">>), Http(<<"b">>)>>

\* ids the user may type over the id line: the first generated id, and one never generated
EditIds == <<db_entry_generate_id(1), <<"f", "f">>>>

EditTitles == <<<<"B">>>>

EditExtended == <<<<>>, <<"n">>>>

EditKinds ==
    {"cancel", "asis", "id", "url", "title", "extended", "droptitle", "baddate", "deldoc"}

\* how many alternative values a kind of change has
EditAlternatives(kind) ==
    CASE kind = "id" -> Len(EditIds)
      [] kind = "url" -> Len(Urls)
      [] kind = "extended" -> Len(EditExtended)
      [] OTHER -> 1

\* the user's changes: <<kind, document position, alternative>>
EditChoices(ndocs) ==
    {<<"cancel", 1, 1>>, <<"asis", 1, 1>>}
    \cup UNION {{<<kind, pos, alt>> : pos \in 1..ndocs, alt \in 1..EditAlternatives(kind)} :
                    kind \in EditKinds \ {"cancel", "asis"}}

\* the document as the user leaves it
EditedDoc(doc, kind, alt) ==
    CASE kind = "id" -> With(doc, "id", EditIds[alt])
      [] kind = "url" -> With(doc, "url", Urls[alt])
      [] kind = "title" -> With(doc, "title", EditTitles[alt])
      [] kind = "extended" -> With(doc, "extended", EditExtended[alt])
      [] kind = "droptitle" -> Without(doc, "title")
      [] kind = "baddate" -> With(doc, "created_date", [fmt |-> "garbled", wall |-> 0, off |-> 0])
      [] OTHER -> doc

\* when the user breaks one document, the other documents of the text get a new title
OtherDoc(doc, kind) ==
    IF kind \in {"droptitle", "baddate"} THEN With(doc, "title", EditTitles[1]) ELSE doc

\* the documents of the text as the user leaves them
EditedDocs(doc_list, choice) ==
    [i \in 1..Len(doc_list) |->
        IF i = choice[2] THEN EditedDoc(doc_list[i], choice[1], choice[3])
        ELSE OtherDoc(doc_list[i], choice[1])]

RemoveAt(l, pos) == SubSeq(l, 1, pos - 1) \o SubSeq(l, pos + 1, Len(l))

\* click.edit without require_save: the unsaved text comes back as it was handed over
click_edit_no_require_save(doc_list, choice) ==
    IF choice[1] \in {"cancel", "asis"} THEN Some(doc_list)
    ELSE IF choice[1] = "deldoc" THEN Some(RemoveAt(doc_list, choice[2]))
    ELSE Some(EditedDocs(doc_list, choice))

\* click.edit(yaml.dump_all(doc_list), require_save=True) followed by yaml.safe_load_all:
\* None when the user quits without saving, else the documents of the saved text
click_edit(doc_list, choice) ==
    IF choice[1] = "cancel" THEN None
    ELSE IF choice[1] = "asis" THEN Some(doc_list)
    ELSE IF choice[1] = "deldoc" THEN Some(RemoveAt(doc_list, choice[2]))
    ELSE Some(EditedDocs(doc_list, choice))

\* documents that db_entry_from_editdoc cannot parse are left out, the others are returned
db_entry_list_edit_skips_unparsed(entry_list, choice) ==
    LET doc_list == [i \in 1..Len(entry_list) |-> db_entry_to_editdoc(entry_list[i], FALSE)]
        yaml_edited == click_edit(doc_list, choice)
        Parsed(doc) == db_entry_from_editdoc_ok(doc)
        parsed == SelectSeq(yaml_edited.val, Parsed)
    IN IF yaml_edited.isNone THEN [raised |-> FALSE, ret |-> None]
       ELSE [raised |-> FALSE,
             ret |-> Some([i \in 1..Len(parsed) |-> db_entry_from_editdoc(parsed[i])])]

\* db_entry_list_edit: raised is set when db_entry_from_editdoc raises on a document
db_entry_list_edit(entry_list, choice) ==
    LET doc_list == [i \in 1..Len(entry_list) |-> db_entry_to_editdoc(entry_list[i], FALSE)]
        yaml_edited == click_edit(doc_list, choice)
    IN IF yaml_edited.isNone THEN [raised |-> FALSE, ret |-> None]
       ELSE IF \E i \in 1..Len(yaml_edited.val) : ~db_entry_from_editdoc_ok(yaml_edited.val[i])
       THEN [raised |-> TRUE, ret |-> None]
       ELSE [raised |-> FALSE,
             ret |-> Some([i \in 1..Len(yaml_edited.val) |->
                              db_entry_from_editdoc(yaml_edited.val[i])])]

(***************************************************************************)
(* Archiving                                                               *)
(***************************************************************************)
\* entry['url'].lower().startswith('http')
IsHttp(url) == Prefix(Lower(url), 4) = <<"h", "t", "t", "p">>

\* db_entry_list_archive over entry_list: dirs is the set of ids whose archive directory
\* holds files, pages the set of urls whose page exists (archive_url succeeds on them)
RECURSIVE ArchiveLoop(_, _, _, _)
ArchiveLoop(st, entry_list, pages, now) ==
    IF Len(entry_list) = 0 THEN st
    ELSE LET entry == entry_list[1]
             wiped == st.dirs \ {entry.id}
             next == IF ~IsHttp(entry.url) THEN st
                     ELSE IF entry.url \notin pages THEN [st EXCEPT !.dirs = wiped]
                     ELSE [dirs |-> wiped \cup {entry.id},
                           changed_list |->
                               Append(st.changed_list,
                                      With(With(entry, "archived", TRUE), "archived_date", now))]
         IN ArchiveLoop(next, Tail(entry_list), pages, now)

db_entry_list_archive(entry_list, dirs, pages, now) ==
    LET st == ArchiveLoop([dirs |-> dirs, changed_list |-> <<>>], entry_list, pages, now)
    IN [dirs |-> st.dirs, ret |-> ListOrNone(st.changed_list)]

\* db_git_commit's effect on the archive directories: git rm of the directory of every
\* archived entry of archive_list that is marked hard_deleted
db_git_commit_dirs(dirs, archive_list) ==
    dirs \ {archive_list[i].id : i \in {j \in 1..Len(archive_list) :
                Get(archive_list[j], "archived", FALSE) /\ Get(archive_list[j], "hard_deleted", FALSE)}}

(***************************************************************************)
(* Command runs.  A run starts from the persisted records and the archive  *)
(* directories and ends with: the in-memory list at exit, how it exited,   *)
(* whether db_save_db and db_git_commit were called, the records on disk,  *)
(* the archive directories, and the changed list it computed.              *)
(***************************************************************************)
\* calls lists the calls of db_save_db and db_git_commit the run made, in order
Exit(db, records, dirs, outcome) ==
    [db |-> db, outcome |-> outcome, saved |-> FALSE, committed |-> FALSE, calls |-> <<>>,
     records |-> records, dirs |-> dirs, changed |-> None]

\* the commit is made first, the store is saved after it
SavedAfterCommit(db, dirs, changed) ==
    [db |-> db, outcome |-> "ok", saved |-> TRUE, committed |-> TRUE,
     calls |-> <<"db_git_commit", "db_save_db">>,
     records |-> db_save_db(db), dirs |-> dirs, changed |-> changed]

Saved(db, dirs, changed) ==
    [db |-> db, outcome |-> "ok", saved |-> TRUE, committed |-> TRUE,
     calls |-> <<"db_save_db", "db_git_commit">>,
     records |-> db_save_db(db), dirs |-> dirs, changed |-> changed]

\* the entry db_entry_add creates
NewEntry(id, url, title, tags, extended, now) ==
    [id |-> id, url |-> url, title |-> title, tags |-> SortedStrs(FromKeys(tags)),
     created_date |-> now, extended |-> IF extended.isNone THEN <<>> ELSE extended.val]

command_add(records, dirs, id, now, url, title, tags, extended, archive, pages, no_edit, choice) ==
    LET db == db_load_db(records)
        entry == NewEntry(id, url, title, tags, extended, now)
        edited == IF no_edit THEN [raised |-> FALSE, ret |-> Some(<<entry>>)]
                  ELSE db_entry_list_edit(<<entry>>, choice)
        upd == db_entry_list_update(db, edited.ret.val)
        arch == IF archive THEN db_entry_list_archive(upd.ret.val, dirs, pages, now)
                ELSE [dirs |-> dirs, ret |-> None]
    IN IF db_entry_get_raises(db, url) THEN Exit(db, records, dirs, "Internal Error")
       ELSE IF ~db_entry_get(db, url).isNone THEN Exit(db, records, dirs, "Error: entry already exists")
       ELSE IF edited.raised THEN Exit(db, records, dirs, "Exception")
       ELSE IF edited.ret.isNone THEN Exit(db, records, dirs, "User aborted")
       ELSE IF upd.ret.isNone THEN Exit(upd.db, records, dirs, "No changes found")
       ELSE Saved(upd.db, db_git_commit_dirs(arch.dirs, arch.ret.val), upd.ret)

command_edit(records, dirs, search_args, include_removed, confirm, choice) ==
    LET db == db_load_db(records)
        entry_list == db_entry_list_search(db, search_args, include_removed)
        edited == db_entry_list_edit(entry_list.val, choice)
        upd == db_entry_list_update(db, edited.ret.val)
    IN IF entry_list.isNone THEN Exit(db, records, dirs, "No selected entries")
       ELSE IF Len(entry_list.val) > 5 /\ ~confirm THEN Exit(db, records, dirs, "User aborted")
       ELSE IF edited.raised THEN Exit(db, records, dirs, "Exception")
       ELSE IF edited.ret.isNone THEN Exit(db, records, dirs, "User aborted")
       ELSE IF upd.ret.isNone THEN Exit(upd.db, records, dirs, "No changes found")
       ELSE Saved(upd.db, dirs, upd.ret)

\* db_entry_list_remove: the list after the call (entries are marked or deleted in place)
\* and the changed list
\* the entry is marked hard_deleted and reported, but not deleted from the list
RemoveOneKeepsEntry(st, rm_entry, hard_delete, now) ==
    LET found == {pos \in 1..Len(st.db) : st.db[pos].id = rm_entry.id}
        pos == Min(found)
        entry == st.db[pos]
        removed == With(With(entry, "removed", TRUE), "removed_date", now)
    IN IF found = {} THEN st
       ELSE IF hard_delete
       THEN [db |-> st.db,
             changed_list |-> Append(st.changed_list, With(entry, "hard_deleted", TRUE))]
       ELSE IF ~Get(entry, "removed", FALSE)
       THEN [db |-> [st.db EXCEPT ![pos] = removed],
             changed_list |-> Append(st.changed_list, removed)]
       ELSE st

\* the soft branch marks the entry whether or not it is already removed
RemoveOneMarksAgain(st, rm_entry, hard_delete, now) ==
    LET found == {pos \in 1..Len(st.db) : st.db[pos].id = rm_entry.id}
        pos == Min(found)
        entry == st.db[pos]
        removed == With(With(entry, "removed", TRUE), "removed_date", now)
    IN IF found = {} THEN st
       ELSE IF hard_delete
       THEN [db |-> RemoveAt(st.db, pos),
             changed_list |-> Append(st.changed_list, With(entry, "hard_deleted", TRUE))]
       ELSE [db |-> [st.db EXCEPT ![pos] = removed],
             changed_list |-> Append(st.changed_list, removed)]

\* one turn of db_entry_list_remove's outer loop
RemoveOne(st, rm_entry, hard_delete, now) ==
    LET found == {pos \in 1..Len(st.db) : st.db[pos].id = rm_entry.id}
        pos == Min(found)
        entry == st.db[pos]
        removed == With(With(entry, "removed", TRUE), "removed_date", now)
    IN IF found = {} THEN st
       ELSE IF hard_delete
       THEN [db |-> RemoveAt(st.db, pos),
             changed_list |-> Append(st.changed_list, With(entry, "hard_deleted", TRUE))]
       ELSE IF ~Get(entry, "removed", FALSE)
       THEN [db |-> [st.db EXCEPT ![pos] = removed],
             changed_list |-> Append(st.changed_list, removed)]
       ELSE st

RECURSIVE RemoveLoop(_, _, _, _)
RemoveLoop(st, entry_list, hard_delete, now) ==
    IF Len(entry_list) = 0 THEN st
    ELSE RemoveLoop(RemoveOne(st, entry_list[1], hard_delete, now), Tail(entry_list),
                    hard_delete, now)

db_entry_list_remove(entries, entry_list, hard_delete, now) ==
    LET st == RemoveLoop([db |-> entries, changed_list |-> <<>>], entry_list, hard_delete, now)
    IN [db |-> st.db, ret |-> ListOrNone(st.changed_list)]

command_archive(records, dirs, now, search_args, confirm, pages) ==
    LET db == db_load_db(records)
        entry_list == db_entry_list_search(db, search_args, FALSE)
        arch == db_entry_list_archive(entry_list.val, dirs, pages, now)
        upd == db_entry_list_update(db, arch.ret.val)
    IN IF entry_list.isNone THEN Exit(db, records, dirs, "No selected entries")
       ELSE IF Len(entry_list.val) > 5 /\ ~confirm THEN Exit(db, records, dirs, "User aborted")
       ELSE IF arch.ret.isNone THEN Exit(db, records, arch.dirs, "No changes found")
       ELSE Saved(upd.db, db_git_commit_dirs(arch.dirs, arch.ret.val), arch.ret)

command_remove(records, dirs, now, search_args, confirm, hard_delete) ==
    LET db == db_load_db(records)
        entry_list == db_entry_list_search(db, search_args, TRUE)
        rem == db_entry_list_remove(db, entry_list.val, hard_delete, now)
    IN IF entry_list.isNone THEN Exit(db, records, dirs, "No selected entries")
       ELSE IF Len(entry_list.val) > 5 /\ ~confirm THEN Exit(db, records, dirs, "User aborted")
       ELSE IF rem.ret.isNone THEN Exit(rem.db, records, dirs, "No changes found")
       ELSE Saved(rem.db, db_git_commit_dirs(dirs, rem.ret.val), rem.ret)

(***************************************************************************)
(* Import of a Pinboard JSON export                                        *)
(***************************************************************************)
\* s.replace(from, to) for one-character from
ReplaceChar(s, from, to) == [i \in 1..Len(s) |-> IF s[i] = from THEN to ELSE s[i]]

\* s.replace(c, "")
RemoveChar(s, c) == SelectSeq(s, LAMBDA x : x # c)

Whitespace == {" ", "\n", "\r"}

\* s.strip()
RECURSIVE Strip(_)
Strip(s) ==
    IF Len(s) = 0 THEN s
    ELSE IF s[1] \in Whitespace THEN Strip(Tail(s))
    ELSE IF s[Len(s)] \in Whitespace THEN Strip(SubSeq(s, 1, Len(s) - 1))
    ELSE s

\* s.split(' ')
RECURSIVE Split(_)
Split(s) ==
    LET sp == IndexOf(" ", s)
    IN IF sp = 0 THEN <<s>> ELSE <<Prefix(s, sp - 1)>> \o Split(Suffix(s, sp))

FormatPinboard == "%Y-%m-%dT%H:%M:%SZ"

\* the keys of import_entry, in the order the dict holds them
ImportKeys == <<"url", "title", "extended", "tags", "created_date">>

\* import_entry: the import record mapped to the local schema, empty extended trimmed
ImportEntry(import_item) ==
    db_entry_internalize_trim(
        [url |-> import_item.href,
         title |-> Strip(RemoveChar(ReplaceChar(import_item.description, "\n", " "), "\r")),
         extended |-> Strip(import_item.extended),
         tags |-> IF Len(import_item.tags) > 0 THEN SortedStrs(Split(import_item.tags)) ELSE <<>>,
         created_date |-> import_item.time.wall * TicksPerSec])

\* the stored entry overwritten with every field of import_entry
Overwritten(entry, import_entry) ==
    [key \in DOMAIN entry \cup DOMAIN import_entry |->
        IF key \in DOMAIN import_entry THEN import_entry[key] ELSE entry[key]]

\* how many times the updated entry is appended to edit_list: once for the first key
\* that differs and once for every key after it
ImportAppends(entry, import_entry) ==
    LET keys == SelectSeq(ImportKeys, LAMBDA key : key \in DOMAIN import_entry)
        differs == {i \in 1..Len(keys) :
                       keys[i] \notin DOMAIN entry \/ entry[keys[i]] # import_entry[keys[i]]}
    IN IF differs = {} THEN 0 ELSE Len(keys) - Min(differs) + 1

\* the loop of command_import_pinboard over the import records: edit_list, the ids
\* generated, and whether a url matched more than one stored entry
RECURSIVE ImportLoop(_, _, _)
ImportLoop(st, db, import_list) ==
    IF Len(import_list) = 0 \/ st.raised THEN st
    ELSE LET import_entry == ImportEntry(import_list[1])
             matches == UrlMatches(db, import_entry.url)
             entry == Overwritten(db[Min(matches)], import_entry)
             next == IF Cardinality(matches) > 1 THEN [st EXCEPT !.raised = TRUE]
                     ELSE IF matches # {}
                     THEN [st EXCEPT !.edit_list =
                              st.edit_list
                              \o [i \in 1..ImportAppends(db[Min(matches)], import_entry) |-> entry]]
                     ELSE [st EXCEPT !.edit_list =
                                Append(st.edit_list,
                                       With(import_entry, "id", db_entry_generate_id(st.id))),
                              !.id = st.id + 1]
         IN ImportLoop(next, db, Tail(import_list))

Reversed(l) == [i \in 1..Len(l) |-> l[Len(l) + 1 - i]]

\* the import without the return of --dry-run
command_import_pinboard_ignores_dry_run(records, dirs, id, jsonfile, dry_run) ==
    LET db == db_load_db(records)
        loop == ImportLoop([edit_list |-> <<>>, id |-> id, raised |-> FALSE], db, Reversed(jsonfile))
        upd == db_entry_list_update(db, loop.edit_list)
    IN IF loop.raised THEN Exit(db, records, dirs, "Internal Error")
       ELSE IF Len(loop.edit_list) < 1 THEN Exit(db, records, dirs, "No changes to import")
       ELSE IF upd.ret.isNone THEN Exit(upd.db, records, dirs, "No changes found")
       ELSE Saved(upd.db, dirs, upd.ret)

command_import_pinboard(records, dirs, id, jsonfile, dry_run) ==
    LET db == db_load_db(records)
        loop == ImportLoop([edit_list |-> <<>>, id |-> id, raised |-> FALSE], db, Reversed(jsonfile))
        upd == db_entry_list_update(db, loop.edit_list)
    IN IF loop.raised THEN Exit(db, records, dirs, "Internal Error")
       ELSE IF Len(loop.edit_list) < 1 THEN Exit(db, records, dirs, "No changes to import")
       ELSE IF upd.ret.isNone THEN Exit(upd.db, records, dirs, "No changes found")
       ELSE IF dry_run THEN [Exit(upd.db, records, dirs, "dry run") EXCEPT !.changed = upd.ret]
       ELSE Saved(upd.db, dirs, upd.ret)

\* how many ids a run of the import generates
ImportIds(records, jsonfile) ==
    ImportLoop([edit_list |-> <<>>, id |-> 1, raised |-> FALSE],
               db_load_db(records), Reversed(jsonfile)).id - 1

(***************************************************************************)
(* The inputs of the command runs                                          *)
(***************************************************************************)
\* the title: --title TITLE or, without it, what page_title(url) returns
AddTitles == {<<"A">>}

\* --tags, split at the commas
AddTags == {<<<<"y">>, <<"x">>, <<"y">>>>}

\* --extended TEXT
AddExtended == {None, Some(<<"n">>)}

\* [SEARCH]... of edit, archive and remove
CmdSearchArgs ==
    {<<>>,
     <<<<"i", "d", ":", "1">>>>}

PinboardTime(secs) == [fmt |-> FormatPinboard, wall |-> secs, off |-> 0]

ImportItemA ==
    [href |-> Urls[1], description |-> <<" ", "A", "\n">>, extended |-> <<" ">>,
     tags |-> <<"y", " ", "x">>, time |-> PinboardTime(0)]

ImportItemB ==
    [href |-> Urls[2], description |-> <<"B">>, extended |-> <<"n">>,
     tags |-> <<>>, time |-> PinboardTime(1)]

\* a later record for the url of ImportItemB, under another title
ImportItemB2 ==
    [href |-> Urls[2], description |-> <<"A">>, extended |-> <<"n">>,
     tags |-> <<>>, time |-> PinboardTime(1)]

\* the import files: lists of records (an export lists the newest first; the first file
\* lists the oldest first)
ImportFiles ==
    {<<ImportItemA, ImportItemB>>, <<ImportItemB, ImportItemB>>, <<ImportItemB2, ImportItemB>>}

Ids(entries) == {entries[i].id : i \in 1..Len(entries)}

(***************************************************************************)
(* The state machine.  file is entries.json, archive_dirs the ids whose    *)
(* archive directory holds files, db_entry_list the in-memory list when    *)
(* the last run exited, last what the last run did.  clock is the time     *)
(* datetime.now() returns, in ticks; every run takes one tick.             *)
(***************************************************************************)
\* no check command is running
NoCheck ==
    [pc |-> "idle", search_args |-> <<>>, thread_count |-> 0, entry_list |-> <<>>,
     taskq |-> <<>>, workers |-> <<>>, outq |-> <<>>, responses |-> <<>>, collected |-> <<>>,
     fail_count |-> 0, fail_list |-> <<>>, thread |-> 0]

NoRun ==
    [cmd |-> "none", outcome |-> "none", saved |-> FALSE, committed |-> FALSE, calls |-> <<>>,
     edit |-> "none", args |-> <<>>, flag |-> FALSE]

\* the record of a run: the command, how it exited, whether it saved and committed, what
\* the user did in the editor, the command's arguments (the url of add, the search terms
\* of edit, archive and remove, the records of the import file) and its flag (--no-edit, --all, --force, --dry-run)
Ran(cmd, run, edit, args, flag) ==
    [cmd |-> cmd, outcome |-> run.outcome, saved |-> run.saved, committed |-> run.committed,
     calls |-> run.calls,
     edit |-> edit, args |-> args, flag |-> flag]

Init ==
    /\ file = <<>>
    /\ db_entry_list = <<>>
    /\ archive_dirs = {}
    /\ nextId = 1
    /\ clock = 0
    /\ last = NoRun
    /\ ret = None
    /\ check = NoCheck

Finish(run) ==
    /\ file' = run.records
    /\ db_entry_list' = run.db
    /\ archive_dirs' = run.dirs
    /\ clock' = clock + 1
    /\ ret' = ret
    /\ check' = check

Add ==
    /\ clock < MaxClock
    /\ nextId <= MaxId
    /\ \E url \in Range(Urls), title \in AddTitles, tags \in AddTags,
          extended \in AddExtended, archive \in BOOLEAN, no_edit \in BOOLEAN :
        \E pages \in (IF archive THEN {{}, {url}} ELSE {{}}),
           choice \in (IF no_edit THEN {<<"asis", 1, 1>>} ELSE EditChoices(1)) :
            LET run == command_add(file, archive_dirs, db_entry_generate_id(nextId), clock, url,
                                   title, tags, extended, archive, pages, no_edit, choice)
            IN /\ Finish(run)
               /\ nextId' = nextId + 1
               /\ last' = Ran("add", run, IF no_edit THEN "none" ELSE choice[1], <<url>>, no_edit)

Selected(search_args, include_removed) ==
    Ids(db_entry_list_search(db_load_db(file), search_args, include_removed).val)

Edit ==
    /\ clock < MaxClock
    /\ \E search_args \in CmdSearchArgs, include_removed \in BOOLEAN,
          choice \in EditChoices(Len(file)) :
        LET run == command_edit(file, archive_dirs, search_args, include_removed, TRUE, choice)
        IN /\ choice[2] <= Cardinality(Selected(search_args, include_removed)) \/ choice[2] = 1
           /\ Finish(run)
           /\ nextId' = nextId
           /\ last' = Ran("edit", run, choice[1], search_args, include_removed)

Archive ==
    /\ clock < MaxClock
    /\ \E search_args \in CmdSearchArgs, pages \in SUBSET Range(Urls) :
        LET run == command_archive(file, archive_dirs, clock, search_args, TRUE, pages)
        IN /\ Finish(run)
           /\ nextId' = nextId
           /\ last' = Ran("archive", run, "none", search_args, FALSE)

Remove ==
    /\ clock < MaxClock
    /\ \E search_args \in CmdSearchArgs, hard_delete \in BOOLEAN :
        LET run == command_remove(file, archive_dirs, clock, search_args, TRUE, hard_delete)
        IN /\ Finish(run)
           /\ nextId' = nextId
           /\ last' = Ran("remove", run, "none", search_args, hard_delete)

Import ==
    /\ clock < MaxClock
    /\ \E jsonfile \in ImportFiles, dry_run \in BOOLEAN :
        LET run == command_import_pinboard(file, archive_dirs, nextId, jsonfile, dry_run)
        IN /\ nextId + ImportIds(file, jsonfile) <= MaxId + 1
           /\ Finish(run)
           /\ nextId' = nextId + ImportIds(file, jsonfile)
           /\ last' = Ran("import", run, "none", jsonfile, dry_run)

Next == Add \/ Edit \/ Archive \/ Remove \/ Import

Spec == Init /\ [][Next]_vars

\* C3: a no-op edit never produces a change.  When the editor returns the rendered
\* documents unmodified, whatever optional fields the selected entries carry, the merge
\* finds no change: the store is not modified, nothing is saved, nothing is committed.
NoOpEditNoChange ==
    last.cmd = "edit" /\ last.edit = "asis" /\ last.outcome # "No selected entries" =>
        /\ last.outcome = "No changes found"
        /\ ~last.saved
        /\ ~last.committed
        /\ db_entry_list = db_load_db(file)

\* C4: add uniqueness.  add with a url some stored entry has fails with the duplicate-url
\* error and leaves the store alone; add with a url not in the store, when it goes
\* through, leaves every stored entry in place and adds exactly one entry, under an id no
\* stored entry had.
AddUniqueness ==
    [][last'.cmd = "add" =>
          IF \E pos \in 1..Len(file) : file[pos].url = last'.args[1]
          THEN /\ last'.outcome = "Error: entry already exists"
               /\ file' = file
               /\ ~last'.saved
          ELSE last'.outcome = "ok" =>
                  /\ Len(file') = Len(file) + 1
                  /\ Cardinality(Ids(file') \ Ids(file)) = 1
                  /\ \A pos \in 1..Len(file) : \E i \in 1..Len(file') : file'[i] = file[pos]]_vars

\* C5: url uniqueness.  Starting from a store in which no two entries share a url, after
\* any sequence of add, edit, archive, remove and import the store holds at most one entry
\* per url.
UrlUnique ==
    \A i, j \in 1..Len(file) : i # j => file[i].url # file[j].url

\* C6: the id invariant.  No two stored entries have the same id, and an edit session
\* neither gives a stored entry another id nor creates a second entry for it: the ids in
\* the store are the same before and after an edit.
IdInvariant ==
    [][/\ \A i, j \in 1..Len(file') : i # j => file'[i].id # file'[j].id
       /\ last'.cmd = "edit" => Ids(file') = Ids(file)]_vars

\* single search terms to probe the visibility of an entry with
ProbeTerms ==
    {<<"i", "d", ":", "1">>, <<"i", "d", ":", "2">>, <<"a">>, <<"t", "a", "g", ":", "x">>,
     <<"u", "r", "l", ":", "b">>, <<"a", "r", "c", "h", "i", "v", "e", "d", ":", "t", "r", "u", "e">>}

\* term lists to probe with: none, one term, one excluded term
ProbeArgs ==
    {<<>>} \cup {<<term>> : term \in ProbeTerms} \cup {<<<<"-">> \o term>> : term \in ProbeTerms}

\* C8: soft-delete visibility.  After a soft remove every selected entry E is still in
\* the store, no default search returns E, and a search that includes removed entries
\* returns E whenever its term matches E.  After a hard delete every selected entry is
\* gone from the store and from every search, with or without removed entries, and every
\* entry that was not selected is still in the store.
SoftDeleteVisibility ==
    [][last'.cmd = "remove" /\ last'.outcome \in {"ok", "No changes found"} =>
          LET before == db_load_db(file)
              after == db_load_db(file')
              selected == Selected(last'.args, TRUE)
              Found(args, include_removed) ==
                  Ids(db_entry_list_search(after, args, include_removed).val)
          IN /\ selected # {}
             /\ IF ~last'.flag
                THEN /\ Ids(after) = Ids(before)
                     /\ \A args \in ProbeArgs : Found(args, FALSE) \cap selected = {}
                     /\ selected \subseteq Found(<<>>, TRUE)
                     /\ \A pos \in 1..Len(after) : \A term \in ProbeTerms :
                            after[pos].id \in selected /\ db_entry_search_match(after[pos], term)
                                => after[pos].id \in Found(<<term>>, TRUE)
                ELSE /\ Ids(after) = Ids(before) \ selected
                     /\ \A args \in ProbeArgs, include_removed \in BOOLEAN :
                            Found(args, include_removed) \cap selected = {}
                     /\ \A pos \in 1..Len(before) :
                            before[pos].id \notin selected
                                => \E i \in 1..Len(after) : after[i] = before[pos]]_vars

\* a hard delete took one of two entries out of the store
SoftDeleteVisibilityWitness ==
    /\ last.cmd = "remove"
    /\ last.flag
    /\ last.outcome = "ok"
    /\ Len(file) = 1

\* C9: edit cancellation.  When the user quits the editor without saving, in the add flow
\* and in the edit flow, the in-memory store is the one that was loaded, the entries file
\* is not written and no commit is made.
EditCancellation ==
    [][last'.edit = "cancel" =>
          /\ db_entry_list' = db_load_db(file)
          /\ file' = file
          /\ ~last'.saved
          /\ ~last'.committed]_vars

\* the edit of a stored entry was cancelled in the editor
EditCancellationWitness ==
    /\ last.cmd = "edit"
    /\ last.edit = "cancel"
    /\ last.outcome = "User aborted"
    /\ Len(file) > 0

\* C10: optional string fields are never persisted as empty strings.  No record of the
\* entries file has an extended or removed_reason field that is the empty string.
NoEmptyOptionalStrings ==
    \A i \in 1..Len(file) : \A field \in StrFields \cap DOMAIN file[i] : Len(file[i][field]) > 0

\* C11: an edit batch is all or nothing.  When one document of the edited text cannot be
\* parsed back (its title line was deleted, or its date is garbled), no document of the
\* text is applied: the in-memory store is the one that was loaded, the entries file is
\* not written, the archive directories are untouched and no commit is made.
EditBatchAllOrNothing ==
    [][last'.cmd \in {"add", "edit"} /\ last'.edit \in {"droptitle", "baddate"} =>
          /\ db_entry_list' = db_load_db(file)
          /\ file' = file
          /\ archive_dirs' = archive_dirs
          /\ ~last'.saved
          /\ ~last'.committed]_vars

\* an edit of two entries failed on one of its documents
EditBatchAllOrNothingWitness ==
    /\ last.cmd = "edit"
    /\ last.edit \in {"droptitle", "baddate"}
    /\ last.args = <<>>
    /\ last.outcome = "Exception"
    /\ Len(file) = 2

\* how many elements of the sequence are the value
Count(l, v) == Cardinality({i \in 1..Len(l) : l[i] = v})

\* C16: save ordering.  A run that saves writes every entry of the in-memory store exactly
\* once, as externalized, in ascending order of created_date whatever the order of the
\* in-memory list; no written record carries the hard_deleted marker, and after a hard
\* delete no selected entry is in the written file.
SaveOrdering ==
    [][last'.saved =>
          LET written == [j \in 1..Len(db_entry_list') |->
                             db_entry_externalize(db_entry_list'[j], FormatPersisted, FALSE)]
          IN /\ Len(file') = Len(written)
             /\ \A j \in 1..Len(written) : Count(file', written[j]) = Count(written, written[j])
             /\ \A i, j \in 1..Len(file') :
                    i < j => file'[i].created_date.wall <= file'[j].created_date.wall
             /\ \A i \in 1..Len(file') : "hard_deleted" \notin DOMAIN file'[i]
             /\ last'.cmd = "remove" /\ last'.flag =>
                    Ids(file') \cap Selected(last'.args, TRUE) = {}]_vars

\* a store whose in-memory list was not in the order of created_date has been saved
SaveOrderingWitness ==
    /\ last.saved
    /\ \E i, j \in 1..Len(db_entry_list) :
           i < j /\ db_entry_list[i].created_date >= db_entry_list[j].created_date + TicksPerSec

\* C17: archive results are recorded on the stored entry.  Whenever a run of archive, or
\* of add with the archive option, has stored an offline copy for an entry (the archive
\* directory of the entry, empty before the run, holds files after it), the entry written
\* by the run's save has archived = true and an archived_date.
ArchiveRecorded ==
    [][last'.cmd \in {"add", "archive"} /\ last'.saved =>
          \A i \in 1..Len(file') :
              file'[i].id \in archive_dirs' \ archive_dirs =>
                  /\ Get(file'[i], "archived", FALSE)
                  /\ "archived_date" \in DOMAIN file'[i]]_vars

\* C18: removed is sticky under edit.  When the user changes only the title of a selected
\* entry in the editor, every stored entry keeps the optional fields it had before the
\* edit, with their values: a soft-removed entry is still removed, with its removed_date,
\* and archived, archived_date and extended are preserved.
RemovedSticky ==
    [][last'.cmd = "edit" /\ last'.edit = "title" =>
          LET before == db_load_db(file)
              after == db_load_db(file')
          IN \A i \in 1..Len(before) : \A j \in 1..Len(after) :
                 after[j].id = before[i].id =>
                     \A field \in Range(DB_ENTRY_OPTIONAL_FIELDS) \cap DOMAIN before[i] :
                         field \in DOMAIN after[j] /\ after[j][field] = before[i][field]]_vars

\* C19: save, then commit.  In every run of add, edit, archive, remove and import the
\* commit is made only after the store was saved in that run and at most once: the run
\* calls nothing, or db_save_db and then db_git_commit.  A run that ends with 'No selected
\* entries', 'User aborted' or 'No changes found' makes neither call and leaves the
\* entries file as it was.
SaveThenCommit ==
    [][/\ last'.calls \in {<<>>, <<"db_save_db">>, <<"db_save_db", "db_git_commit">>}
       /\ last'.committed <=> \E i \in 1..Len(last'.calls) : last'.calls[i] = "db_git_commit"
       /\ last'.saved <=> \E i \in 1..Len(last'.calls) : last'.calls[i] = "db_save_db"
       /\ last'.outcome \in {"No selected entries", "User aborted", "No changes found"} =>
              last'.calls = <<>> /\ file' = file]_vars

\* an import saved the store and then committed
SaveThenCommitWitness ==
    /\ last.cmd = "import"
    /\ last.outcome = "ok"
    /\ last.calls = <<"db_save_db", "db_git_commit">>
    /\ Len(file) > 0

\* C23: soft remove is idempotent.  A soft remove leaves every entry that is already
\* marked removed as it is, removed_date included, in the in-memory list and in the
\* entries file; and when every selected entry is already removed the run ends with
\* 'No changes found' without a save and without a commit.
SoftRemoveIdempotent ==
    [][last'.cmd = "remove" /\ ~last'.flag =>
          LET before == db_load_db(file)
              selected == Selected(last'.args, TRUE)
              Kept(after) ==
                  \A i \in 1..Len(before) :
                      Get(before[i], "removed", FALSE) =>
                          \E j \in 1..Len(after) :
                              /\ after[j].id = before[i].id
                              /\ Get(after[j], "removed", FALSE)
                              /\ after[j].removed_date = before[i].removed_date
          IN /\ Kept(db_entry_list')
             /\ Kept(db_load_db(file'))
             /\ (/\ selected # {}
                 /\ \A i \in 1..Len(before) :
                        before[i].id \in selected => Get(before[i], "removed", FALSE))
                    => /\ last'.outcome = "No changes found"
                       /\ last'.calls = <<>>
                       /\ ~last'.saved
                       /\ ~last'.committed
                       /\ file' = file]_vars

\* an entry that was already removed was soft-removed again, at a later time
SoftRemoveIdempotentWitness ==
    /\ last.cmd = "remove"
    /\ ~last.flag
    /\ last.outcome = "No changes found"
    /\ \E i \in 1..Len(db_entry_list) :
           /\ Get(db_entry_list[i], "removed", FALSE)
           /\ db_entry_list[i].removed_date < clock - 1

\* C25: the archived flag matches the archive contents.  After every run of the archive
\* command, a failed re-archive included, each stored entry marked archived has an
\* archive directory that holds its offline copy.
ArchivedHasCopy ==
    [][last'.cmd = "archive" =>
          \A i \in 1..Len(file') :
              Get(db_load_db(file')[i], "archived", FALSE)
                  => db_load_db(file')[i].id \in archive_dirs']_vars

\* the stored entries that have the url of the import record and, for every field the
\* mapped record supplies, the record's value
StoredAs(entries, import_item) ==
    {pos \in 1..Len(entries) :
        /\ entries[pos].url = ImportEntry(import_item).url
        /\ \A key \in DOMAIN ImportEntry(import_item) :
               key \in DOMAIN entries[pos] /\ entries[pos][key] = ImportEntry(import_item)[key]}

\* C26: import dry run has no effect.  An import run with --dry-run, whatever the import
\* file holds, leaves the entries file as it was and calls neither db_save_db nor
\* db_git_commit; and an import without --dry-run in which every record equals the one
\* stored entry of its url ends with 'No changes to import', again without save or commit.
ImportDryRun ==
    [][last'.cmd = "import" =>
          /\ last'.flag =>
                 /\ file' = file
                 /\ archive_dirs' = archive_dirs
                 /\ last'.calls = <<>>
                 /\ ~last'.saved
                 /\ ~last'.committed
          /\ (/\ ~last'.flag
              /\ \A i \in 1..Len(last'.args) :
                     /\ Cardinality(UrlMatches(db_load_db(file), last'.args[i].href)) = 1
                     /\ StoredAs(db_load_db(file), last'.args[i]) # {})
                 => /\ last'.outcome = "No changes to import"
                    /\ file' = file
                    /\ last'.calls = <<>>
                    /\ ~last'.saved
                    /\ ~last'.committed]_vars

\* a dry run found entries to import and changed its in-memory list, not the file
ImportDryRunWitness ==
    /\ last.cmd = "import"
    /\ last.flag
    /\ last.outcome = "dry run"
    /\ Len(db_entry_list) > Len(file)

\* C27: import is idempotent and id-preserving.  An import of the file that the run
\* before it imported changes no entry: the entries file stays as it is and nothing is
\* saved.  And for every record of an import whose url a stored entry has, that entry is
\* still stored afterwards under its id and its url, with every field the mapped record
\* does not supply (archived, removed, their dates) as it was, and the store holds no
\* more entries with that url than before.
ImportIdempotent ==
    [][last'.cmd = "import" /\ ~last'.flag =>
          LET before == db_load_db(file)
              after == db_load_db(file')
          IN /\ (last.cmd = "import" /\ ~last.flag /\ last.args = last'.args) =>
                    /\ file' = file
                    /\ ~last'.saved
                    /\ ~last'.committed
             /\ \A i \in 1..Len(last'.args) : \A pos \in 1..Len(before) :
                    before[pos].url = last'.args[i].href =>
                        /\ \E j \in 1..Len(after) :
                               /\ after[j].id = before[pos].id
                               /\ after[j].url = before[pos].url
                               /\ \A field \in DOMAIN before[pos] \ DOMAIN ImportEntry(last'.args[i]) :
                                      field \in DOMAIN after[j] /\ after[j][field] = before[pos][field]
                        /\ Cardinality(UrlMatches(after, last'.args[i].href))
                               = Cardinality(UrlMatches(before, last'.args[i].href))]_vars

(***************************************************************************)
(* db_entry_list_update on its own: the list starts empty and every step   *)
(* merges a list of entries into it; ret records the call.                 *)
(***************************************************************************)
MaxUpdLen == 2

UpdIds == <<db_entry_generate_id(1), db_entry_generate_id(2)>>

\* the variants of an entry to merge: its title, and whether it carries an extended note
UpdVariants == <<<<<<"A">>, FALSE>>, <<<<"B">>, FALSE>>, <<<<"A">>, TRUE>>>>

\* an entry to merge, from its id and its variant
UpdEntry(p) ==
    LET base == [id |-> UpdIds[p[1]], url |-> Urls[1], title |-> UpdVariants[p[2]][1],
                 tags |-> <<>>, created_date |-> 0]
    IN IF UpdVariants[p[2]][2] THEN With(base, "extended", <<"n">>) ELSE base

UpdParams == (1..Len(UpdIds)) \X (1..Len(UpdVariants))

UpdLists == UNION {[1..n -> UpdParams] : n \in 0..MaxUpdLen}

InitUpdate ==
    /\ file = <<>>
    /\ db_entry_list = <<>>
    /\ archive_dirs = {}
    /\ nextId = 1
    /\ clock = 0
    /\ last = NoRun
    /\ ret = [pre |-> <<>>, arg |-> <<>>, ret |-> None]
    /\ check = NoCheck

Update ==
    \E params \in UpdLists :
        LET entry_list == [i \in 1..Len(params) |-> UpdEntry(params[i])]
            upd == db_entry_list_update(db_entry_list, entry_list)
        IN /\ db_entry_list' = upd.db
           /\ ret' = [pre |-> db_entry_list, arg |-> entry_list, ret |-> upd.ret]
           /\ UNCHANGED <<file, archive_dirs, nextId, clock, last, check>>

NextUpdate == Update

SpecUpdate == InitUpdate /\ [][NextUpdate]_vars

\* C1: merge idempotence.  Once db_entry_list_update(store, [x]) has been applied,
\* applying it again with the same x returns None and leaves the store as it is.
MergeIdempotent ==
    Len(ret.arg) = 1 =>
        db_entry_list_update(db_entry_list, ret.arg) = [db |-> db_entry_list, ret |-> None]

\* the first application replaced a stored entry by x
MergeIdempotentWitness ==
    /\ Len(ret.arg) = 1
    /\ ret.arg[1].id \in Ids(ret.pre)
    /\ ~ret.ret.isNone
    /\ db_entry_list # ret.pre

\* the position of the first entry of entries with this id, 0 if there is none
FirstWithId(entries, id) ==
    IF id \in Ids(entries) THEN Min({pos \in 1..Len(entries) : entries[pos].id = id}) ELSE 0

\* C2: merge semantics.  For every updated entry u, in the order of the update list and
\* against the store as the entries before it left it: (a) an entry with u's id that
\* differs from u is replaced by u at its position and u joins the changed list; (b) an
\* identical one leaves store and changed list alone; (c) with no entry of that id, u is
\* appended and joins the changed list.  The store grows by the new ids only, and an entry
\* whose id is not in the update list stays where and as it was.
MergeSemantics ==
    LET Before(k) == UpdateLoop([db |-> ret.pre, changed_list |-> <<>>], SubSeq(ret.arg, 1, k - 1))
        After(k) == UpdateLoop([db |-> ret.pre, changed_list |-> <<>>], SubSeq(ret.arg, 1, k))
        Case(k) ==
            LET u == ret.arg[k]
                S == Before(k)
                T == After(k)
                pos == FirstWithId(S.db, u.id)
            IN IF pos = 0
               THEN T.db = Append(S.db, u) /\ T.changed_list = Append(S.changed_list, u)
               ELSE IF S.db[pos] # u
               THEN /\ T.db = [S.db EXCEPT ![pos] = u]
                    /\ T.changed_list = Append(S.changed_list, u)
               ELSE T = S
    IN /\ \A k \in 1..Len(ret.arg) : Case(k)
       /\ db_entry_list = After(Len(ret.arg)).db
       /\ ret.ret = ListOrNone(After(Len(ret.arg)).changed_list)
       /\ Len(db_entry_list) = Len(ret.pre) + Cardinality(Ids(ret.arg) \ Ids(ret.pre))
       /\ \A pos \in 1..Len(ret.pre) :
              ret.pre[pos].id \notin Ids(ret.arg) => db_entry_list[pos] = ret.pre[pos]

\* one call replaced an entry that differed only in which fields are present, left an
\* identical one alone, and the store held an entry the update list did not name
MergeSemanticsWitness ==
    /\ Len(ret.arg) = 2
    /\ Len(ret.pre) = 2
    /\ \E k \in 1..2 : \E pos \in 1..2 :
          /\ ret.pre[pos].id = ret.arg[k].id
          /\ DOMAIN ret.pre[pos] # DOMAIN ret.arg[k]
          /\ ret.pre[pos].title = ret.arg[k].title
          /\ db_entry_list[pos] = ret.arg[k]
    /\ Len(ret.ret.val) = 1
    /\ \E k \in 1..2 : ret.arg[k] \in Range(ret.pre)

(***************************************************************************)
(* db_entry_list_search on its own: the list is one of the stores below    *)
(* and every step runs one search; ret records the call.                   *)
(***************************************************************************)
\* A{tags:[x]}, B{tags:[y]}, C{tags:[x,y]}
SearchEntries ==
    <<[id |-> db_entry_generate_id(1), url |-> Urls[1], title |-> <<"A">>,
       tags |-> <<<<"x">>>>, created_date |-> 0],
      [id |-> db_entry_generate_id(2), url |-> Urls[2], title |-> <<"B">>,
       tags |-> <<<<"y">>>>, created_date |-> 0],
      [id |-> db_entry_generate_id(3), url |-> Urls[1] \o <<"/", "p">>, title |-> <<"P">>,
       tags |-> <<<<"x">>, <<"y">>>>, created_date |-> 0]>>

\* the three entries, those of `removed` soft-removed
SearchStore(removed) ==
    [i \in 1..Len(SearchEntries) |->
        IF i \in removed
        THEN With(With(SearchEntries[i], "removed", TRUE), "removed_date", 0)
        ELSE SearchEntries[i]]

TermX == <<"x">>

TermY == <<"y">>

SearchInputs ==
    {<<>>,
     <<<<"+">> \o TermX, <<"+">> \o TermY>>,
     <<TermX, TermY>>,
     <<TermX, <<"-">> \o TermY>>,
     <<<<"+">> \o TermX, TermY>>,
     <<<<"+">> \o TermY, TermX, <<"-", "i", "d", ":", "3">>>>,
     <<<<"-">> \o TermX>>,
     <<<<"t", "a", "g", ":", "x">>>>,
     <<<<"t", "a", "g", ":", "y">>>>,
     <<<<"t", "i", "t", "l", "e", ":", "a">>, <<"s", "i", "t", "e", ":", "B">>>>,
     <<<<"+", "u", "r", "l", ":", "/", "p">>>>}

InitSearch ==
    /\ file = <<>>
    /\ db_entry_list \in {SearchStore(removed) : removed \in SUBSET (1..Len(SearchEntries))}
                           \cup {<<>>, <<SearchEntries[1]>>}
    /\ archive_dirs = {}
    /\ nextId = 1
    /\ clock = 0
    /\ last = NoRun
    /\ ret = [called |-> FALSE, args |-> <<>>, include_removed |-> FALSE, ret |-> None]
    /\ check = NoCheck

Search ==
    \E search_args \in SearchInputs, include_removed \in BOOLEAN :
        /\ ret' = [called |-> TRUE, args |-> search_args, include_removed |-> include_removed,
                   ret |-> db_entry_list_search(db_entry_list, search_args, include_removed)]
        /\ UNCHANGED <<file, db_entry_list, archive_dirs, nextId, clock, last, check>>

NextSearch == Search

SpecSearch == InitSearch /\ [][NextSearch]_vars

\* C7: search composition.  An entry is returned if and only if it is not removed (or
\* removed entries are asked for), matches no '-' term, matches every '+' term and, when
\* there are unprefixed terms, matches one of them; with both '+' and unprefixed terms
\* both filters apply.  With A{x}, B{y}, C{x,y}: '+x +y' returns C, 'x y' returns A, B, C
\* and 'x -y' returns A.
SearchComposition ==
    LET args == ret.args
        Minus == {i \in 1..Len(args) : args[i][1] = "-"}
        Plus == {i \in 1..Len(args) : args[i][1] = "+"}
        Plain == (1..Len(args)) \ (Minus \cup Plus)
        Passes(entry) ==
            /\ ~Get(entry, "removed", FALSE) \/ ret.include_removed
            /\ \A i \in Minus : ~db_entry_search_match(entry, Tail(args[i]))
            /\ \A i \in Plus : db_entry_search_match(entry, Tail(args[i]))
            /\ Plain # {} => \E i \in Plain : db_entry_search_match(entry, args[i])
        Returned == Ids(ret.ret.val)
        All == \/ db_entry_list = SearchStore({})
               \/ ret.include_removed /\ Len(db_entry_list) = Len(SearchEntries)
    IN ret.called =>
        /\ \A pos \in 1..Len(db_entry_list) :
              (\E i \in 1..Len(ret.ret.val) : ret.ret.val[i] = db_entry_list[pos])
                  <=> Passes(db_entry_list[pos])
        /\ All /\ args = <<<<"+">> \o TermX, <<"+">> \o TermY>> => Returned = {SearchEntries[3].id}
        /\ All /\ args = <<TermX, TermY>> => Returned = Ids(SearchEntries)
        /\ All /\ args = <<TermX, <<"-">> \o TermY>> => Returned = {SearchEntries[1].id}

\* a search with an all-of and an any-of term at once, which drops an entry that has the
\* all-of term only
SearchCompositionWitness ==
    /\ ret.called
    /\ ret.args = <<<<"+">> \o TermX, TermY>>
    /\ db_entry_list = SearchStore({})
    /\ Ids(ret.ret.val) = {SearchEntries[3].id}

\* C15: the search result sentinel.  db_entry_list_search returns None exactly when no
\* entry of the list passes the filter, and otherwise the list of the entries that pass,
\* which is not empty: it never returns an empty list.  With the single entry A{x},
\* 'tag:x' returns A and 'tag:y' returns None.
SearchSentinel ==
    ret.called =>
        /\ ret.ret.isNone <=>
               SearchPositions(db_entry_list, ret.args, ret.include_removed) = {}
        /\ ~ret.ret.isNone => Len(ret.ret.val) > 0
        /\ db_entry_list = <<SearchEntries[1]>> /\ ret.args = <<<<"t", "a", "g", ":", "x">>>>
               => ret.ret = Some(<<SearchEntries[1]>>)
        /\ db_entry_list = <<SearchEntries[1]>> /\ ret.args = <<<<"t", "a", "g", ":", "y">>>>
               => ret.ret = None

\* the single entry tagged x was searched for tag:y
SearchSentinelWitness ==
    /\ ret.called
    /\ db_entry_list = <<SearchEntries[1]>>
    /\ ret.args = <<<<"t", "a", "g", ":", "y">>>>
    /\ ret.ret = None

(***************************************************************************)
(* db_entry_externalize and db_entry_internalize on their own: an entry is *)
(* drawn, formatted in either format and either zone, and parsed back.     *)
(***************************************************************************)
\* instants to draw dates from: whole seconds and the ticks between them
CodecInstants == 0..(2 * TicksPerSec - 1)

CodecOptionalDates == {None} \cup {Some(instant) : instant \in CodecInstants}

CodecExtended == {None, Some(<<>>), Some(<<"n">>)}

CodecFormats == {FormatPersisted, FormatEditdoc}

\* an in-memory entry as db_entry_add, db_entry_list_archive and db_entry_list_remove make it
CodecEntry(created, archived, removed, extended) ==
    LET base == [id |-> db_entry_generate_id(1), url |-> Urls[1], title |-> <<"A">>,
                 tags |-> <<<<"x">>>>, created_date |-> created]
        a == IF archived.isNone THEN base
             ELSE With(With(base, "archived", TRUE), "archived_date", archived.val)
        r == IF removed.isNone THEN a
             ELSE With(With(a, "removed", TRUE), "removed_date", removed.val)
    IN IF extended.isNone THEN r ELSE With(r, "extended", extended.val)

InitCodec ==
    /\ file = <<>>
    /\ \E created \in CodecInstants, archived \in CodecOptionalDates,
          removed \in CodecOptionalDates, extended \in CodecExtended :
            db_entry_list = <<CodecEntry(created, archived, removed, extended)>>
    /\ archive_dirs = {}
    /\ nextId = 1
    /\ clock = 0
    /\ last = NoRun
    /\ ret = [called |-> FALSE, datetime_format |-> FormatPersisted, datetime_as_local |-> FALSE,
              ret |-> <<>>]
    /\ check = NoCheck

Codec ==
    \E datetime_format \in CodecFormats, datetime_as_local \in BOOLEAN :
        /\ ret' = [called |-> TRUE, datetime_format |-> datetime_format,
                   datetime_as_local |-> datetime_as_local,
                   ret |-> db_entry_internalize(
                               db_entry_externalize(db_entry_list[1], datetime_format,
                                                    datetime_as_local),
                               datetime_format)]
        /\ UNCHANGED <<file, db_entry_list, archive_dirs, nextId, clock, last, check>>

NextCodec == Codec

SpecCodec == InitCodec /\ [][NextCodec]_vars

\* C12: the codec round trip.  Formatting an in-memory entry and parsing the result back,
\* in the persisted or the edit-document format, in UTC or in the local zone, gives an
\* entry whose required fields are those of the original and whose date fields are the
\* same UTC instants as the original's.
CodecRoundTrip ==
    ret.called =>
        /\ \A field \in Range(DB_ENTRY_REQUIRED_FIELDS) :
               field \in DOMAIN ret.ret /\ ret.ret[field] = db_entry_list[1][field]
        /\ \A field \in DateFields \cap DOMAIN db_entry_list[1] :
               field \in DOMAIN ret.ret /\ ret.ret[field] = db_entry_list[1][field]

(***************************************************************************)
(* The link checker.  command_check runs in the calling thread (thread 0)  *)
(* and hands the selected entries to a multiprocessing.dummy.Pool of       *)
(* thread_count worker threads through imap_unordered: the entries wait in *)
(* the pool's task queue (taskq), a free worker takes the next one, runs   *)
(* check_url on it and puts the result on the pool's result queue (outq),  *)
(* from which the calling thread's for loop takes results in the order of  *)
(* completion.  What the remote server answers is an input.  responses and *)
(* collected record what each entry's probe was answered and what the for  *)
(* loop has been given; thread is the thread that took the last step.      *)
(***************************************************************************)
MaxJobs == 2

\* what requests.get meets: a page, an error status, a name that does not resolve, a
\* server that does not answer within the timeout
Responses == {"200", "404", "dns", "timeout"}

\* the error url_open returns: None, or a message
NoError == [isNone |-> TRUE, val |-> ""]

ErrorMessage(text) == [isNone |-> FALSE, val |-> text]

\* url_open: page_exists and error (content is not used by the checker)
url_open(response) ==
    CASE response = "200" -> [page_exists |-> TRUE, error |-> NoError]
      [] response = "404" ->
            [page_exists |-> FALSE, error |-> ErrorMessage("HTTP error: 404 Not Found")]
      [] response = "dns" ->
            [page_exists |-> FALSE, error |-> ErrorMessage("Connection error: DNS lookup error")]
      [] OTHER ->
            [page_exists |-> FALSE,
             error |-> ErrorMessage("Connection error: HTTP connection timeout (connect timeout=30)")]

is_page_exists(response) == url_open(response)

check_url(entry, response) ==
    LET page == is_page_exists(response)
    IN [entry |-> entry, exists |-> page.page_exists, error |-> page.error]

\* command_check up to the for loop: the store is loaded and searched; len(entry_list)
\* raises TypeError when the search returned None
command_check_start(chk, records) ==
    LET db == db_load_db(records)
        entry_list == db_entry_list_search(db, chk.search_args, FALSE)
    IN IF entry_list.isNone THEN [chk EXCEPT !.pc = "crashed", !.thread = 0]
       ELSE [chk EXCEPT !.pc = "collect",
                        !.entry_list = entry_list.val,
                        !.taskq = [i \in 1..Len(entry_list.val) |-> i],
                        !.workers = [w \in 1..chk.thread_count |-> 0],
                        !.responses = [i \in 1..Len(entry_list.val) |-> "none"],
                        !.fail_count = 0,
                        !.fail_list = <<>>,
                        !.thread = 0]

\* the worker reads the next entry of the task queue and leaves it there
pool_worker_take_leaves_queued(chk, w) ==
    [chk EXCEPT !.workers[w] = Head(chk.taskq), !.thread = w]

\* a free worker thread takes the next entry from the task queue
pool_worker_take(chk, w) ==
    [chk EXCEPT !.workers[w] = Head(chk.taskq), !.taskq = Tail(chk.taskq), !.thread = w]

\* the worker adds a failed entry to the failure groups itself
pool_worker_return_aggregates(chk, w, response) ==
    LET i == chk.workers[w]
        result == check_url(chk.entry_list[i], response)
    IN [chk EXCEPT !.outq = Append(chk.outq, result),
                   !.workers[w] = 0,
                   !.responses[i] = response,
                   !.fail_count = IF result.exists THEN @ ELSE @ + 1,
                   !.thread = w]

\* a probe that fails gives no result: nothing is put on the result queue for it
pool_worker_return_drops_failure(chk, w, response) ==
    LET i == chk.workers[w]
        result == check_url(chk.entry_list[i], response)
    IN [chk EXCEPT !.outq = IF result.exists THEN Append(chk.outq, result) ELSE chk.outq,
                   !.workers[w] = 0,
                   !.responses[i] = response,
                   !.thread = w]

\* the worker's check_url returns and its result is put on the result queue
pool_worker_return(chk, w, response) ==
    LET i == chk.workers[w]
        result == check_url(chk.entry_list[i], response)
    IN [chk EXCEPT !.outq = Append(chk.outq, result),
                   !.workers[w] = 0,
                   !.responses[i] = response,
                   !.thread = w]

\* a failed entry replaces the group of its error instead of joining it
command_check_collect_overwrites(chk) ==
    LET result == Head(chk.outq)
        error == result.error
        entry == result.entry
    IN [chk EXCEPT !.outq = Tail(chk.outq),
                   !.collected = Append(chk.collected, result),
                   !.fail_count = IF result.exists THEN @ ELSE @ + 1,
                   !.fail_list = IF result.exists THEN @
                                 ELSE [e \in DOMAIN @ \cup {error} |->
                                          IF e = error THEN <<entry>> ELSE @[e]],
                   !.thread = 0]

\* one turn of command_check's for loop, on the next result of the result queue
command_check_collect(chk) ==
    LET result == Head(chk.outq)
        error == result.error
        entry == result.entry
    IN [chk EXCEPT !.outq = Tail(chk.outq),
                   !.collected = Append(chk.collected, result),
                   !.fail_count = IF result.exists THEN @ ELSE @ + 1,
                   !.fail_list = IF result.exists THEN @
                                 ELSE IF error \in DOMAIN @
                                 THEN [@ EXCEPT ![error] = Append(@, entry)]
                                 ELSE [e \in DOMAIN @ \cup {error} |->
                                          IF e = error THEN <<entry>> ELSE @[e]],
                   !.thread = 0]

\* the stores to check: empty, the three entries, the three entries with the second removed
CheckFiles == {<<>>, db_save_db(SearchStore({})), db_save_db(SearchStore({2}))}

\* search terms that select everything, the entries tagged x, nothing
CheckArgs == {<<>>, <<<<"t", "a", "g", ":", "x">>>>, <<<<"t", "a", "g", ":", "q">>>>}

InitCheck ==
    /\ file \in CheckFiles
    /\ db_entry_list = <<>>
    /\ archive_dirs = {}
    /\ nextId = 1
    /\ clock = 0
    /\ last = NoRun
    /\ ret = None
    /\ \E search_args \in CheckArgs, thread_count \in 1..MaxJobs :
           check = [NoCheck EXCEPT !.pc = "start", !.search_args = search_args,
                                   !.thread_count = thread_count]

CheckStart ==
    /\ check.pc = "start"
    /\ check' = command_check_start(check, file)
    /\ db_entry_list' = db_load_db(file)
    /\ UNCHANGED <<file, archive_dirs, nextId, clock, last, ret>>

WorkerTake ==
    \E w \in 1..check.thread_count :
        /\ check.pc = "collect"
        /\ check.workers[w] = 0
        /\ Len(check.taskq) > 0
        /\ check' = pool_worker_take(check, w)
        /\ UNCHANGED <<file, db_entry_list, archive_dirs, nextId, clock, last, ret>>

WorkerReturn ==
    \E w \in 1..check.thread_count, response \in Responses :
        /\ check.pc = "collect"
        /\ check.workers[w] # 0
        /\ check' = pool_worker_return(check, w, response)
        /\ UNCHANGED <<file, db_entry_list, archive_dirs, nextId, clock, last, ret>>

MainCollect ==
    /\ check.pc = "collect"
    /\ Len(check.outq) > 0
    /\ check' = command_check_collect(check)
    /\ UNCHANGED <<file, db_entry_list, archive_dirs, nextId, clock, last, ret>>

\* the iterator is exhausted when it has given one result per submitted entry: the
\* summary is printed
MainSummary ==
    /\ check.pc = "collect"
    /\ Len(check.collected) = Len(check.entry_list)
    /\ check' = [check EXCEPT !.pc = "done", !.thread = 0]
    /\ UNCHANGED <<file, db_entry_list, archive_dirs, nextId, clock, last, ret>>

NextCheck == CheckStart \/ WorkerTake \/ WorkerReturn \/ MainCollect \/ MainSummary

SpecCheck == InitCheck /\ [][NextCheck]_vars

\* the threads are scheduled and every probe returns
SpecCheckFair ==
    SpecCheck /\ WF_vars(WorkerTake) /\ WF_vars(WorkerReturn) /\ WF_vars(MainCollect)
              /\ WF_vars(MainSummary)

\* the selected entries whose probe returned exists = False
FailedProbes ==
    {i \in 1..Len(check.entry_list) :
        check.responses[i] # "none"
        /\ ~check_url(check.entry_list[i], check.responses[i]).exists}

\* how many times the entry is listed in the group
TimesListed(entry, group) == Cardinality({k \in 1..Len(group) : group[k] = entry})

\* C13: checker aggregation does not depend on the order of completion.  When the check
\* has finished, whatever the order in which the workers completed, fail_count is the
\* number of selected entries whose probe returned exists = False, each of those entries
\* is listed exactly once, in the group of its error string and in no other group, the
\* groups are those of the errors met, and no entry whose probe succeeded is listed.
CheckAggregation ==
    check.pc = "done" =>
        /\ check.fail_count = Cardinality(FailedProbes)
        /\ DOMAIN check.fail_list =
               {check_url(check.entry_list[i], check.responses[i]).error : i \in FailedProbes}
        /\ \A i \in 1..Len(check.entry_list) : \A error \in DOMAIN check.fail_list :
               TimesListed(check.entry_list[i], check.fail_list[error]) =
                   IF /\ i \in FailedProbes
                      /\ error = check_url(check.entry_list[i], check.responses[i]).error
                   THEN 1 ELSE 0

\* three entries were checked, two failed with the same error, one with another, and the
\* first result collected was not that of the first entry
CheckAggregationWitness ==
    /\ check.pc = "done"
    /\ Len(check.entry_list) = 3
    /\ check.fail_count = 3
    /\ Cardinality(DOMAIN check.fail_list) = 2
    /\ check.collected[1].entry # check.entry_list[1]

\* the results the for loop has been given for the entry
ResultsFor(entry) == {k \in 1..Len(check.collected) : check.collected[k].entry = entry}

\* C14: checker completion and isolation.  Provided the threads are scheduled and every
\* probe returns, a check that has handed its entries to the pool eventually completes,
\* and when it does every selected entry has been probed and has given exactly one result
\* to the for loop, whatever the other entries' probes returned: a failed or timed-out
\* probe cancels, skips or prevents no other probe.
CheckCompletes ==
    (check.pc = "collect") ~>
        (/\ check.pc = "done"
         /\ Len(check.collected) = Len(check.entry_list)
         /\ \A i \in 1..Len(check.entry_list) :
                /\ check.responses[i] # "none"
                /\ Cardinality(ResultsFor(check.entry_list[i])) = 1)

\* a check of three entries completed although the first probe timed out and a second
\* failed
CheckCompletesWitness ==
    /\ check.pc = "done"
    /\ Len(check.entry_list) = 3
    /\ check.responses[1] = "timeout"
    /\ check.fail_count = 2
    /\ Len(check.collected) = 3

\* C20: the link checker never changes shared state from its worker threads.  A step of a
\* worker thread leaves the selected entries, the failure count, the failure groups and
\* the results already collected as they were: fail_count and fail_list change only in
\* steps of the calling thread.  No step of the check command changes the entries file or
\* the archive directories or makes a save or a commit, and once loaded the in-memory
\* store stays as loaded.
CheckerReadOnly ==
    [][/\ file' = file
       /\ archive_dirs' = archive_dirs
       /\ last' = last
       /\ db_entry_list' = db_load_db(file)
       /\ check.pc # "start" => check'.entry_list = check.entry_list
       /\ check'.thread # 0 =>
              /\ check'.fail_count = check.fail_count
              /\ check'.fail_list = check.fail_list
              /\ check'.collected = check.collected]_vars

\* a worker thread has returned the result of a failed probe, which waits to be collected
CheckerReadOnlyWitness ==
    /\ check.pc = "collect"
    /\ check.thread # 0
    /\ Len(check.outq) > 0
    /\ ~check.outq[Len(check.outq)].exists
    /\ check.fail_count = 0

\* the selected entries whose probe is in flight: handed to a worker and not yet returned
InFlight ==
    {i \in 1..Len(check.entry_list) :
        Count(check.taskq, i) = 0 /\ check.responses[i] = "none"}

\* positions a selected entry can have
CheckIndices == 1..Len(SearchEntries)

\* C21: the worker-pool bound.  At every moment of a check with pool size thread_count at
\* most thread_count probes are in flight; every selected entry is handed to a worker
\* exactly once (it waits in the task queue, or one worker holds it, or its probe has
\* returned, never two of these); and, the threads being scheduled, whenever fewer than
\* thread_count probes are in flight and an entry waits, the probe of the next waiting
\* entry is eventually started.
PoolBound ==
    /\ [](check.pc \in {"collect", "done"} =>
            /\ Cardinality(InFlight) <= check.thread_count
            /\ \A i \in 1..Len(check.entry_list) :
                   Count(check.taskq, i) + Count(check.workers, i)
                       + (IF check.responses[i] = "none" THEN 0 ELSE 1) = 1
            /\ check.pc = "done" => Len(check.taskq) = 0 /\ InFlight = {})
    /\ \A i \in CheckIndices :
           (/\ check.pc = "collect"
            /\ Len(check.taskq) > 0
            /\ Cardinality(InFlight) < check.thread_count
            /\ Head(check.taskq) = i)
               ~> (i \in InFlight \/ (i <= Len(check.responses) /\ check.responses[i] # "none"))

\* both workers of a pool of two hold an entry while a third entry waits
PoolBoundWitness ==
    /\ check.pc = "collect"
    /\ check.thread_count = 2
    /\ Cardinality(InFlight) = 2
    /\ Len(check.taskq) = 1

(***************************************************************************)
(* db_entry_get on its own: the list is drawn, every step looks one url up *)
(* in it; ret records the call.                                            *)
(***************************************************************************)
MaxGetLen == 3

\* the entries of a drawn list: an id and a url each
GetParams == (1..3) \X (1..Len(Urls))

GetEntry(p) ==
    [id |-> db_entry_generate_id(p[1]), url |-> Urls[p[2]], title |-> <<"A">>,
     tags |-> <<>>, created_date |-> 0]

GetLists == UNION {[1..n -> GetParams] : n \in 0..MaxGetLen}

\* the urls looked up: the stored ones and one that no entry has
GetUrls == Range(Urls) \cup {Http(<<"c">>)}

InitGet ==
    /\ file = <<>>
    /\ \E params \in GetLists : db_entry_list = [i \in 1..Len(params) |-> GetEntry(params[i])]
    /\ archive_dirs = {}
    /\ nextId = 1
    /\ clock = 0
    /\ last = NoRun
    /\ ret = [called |-> FALSE, url |-> <<>>, pre |-> <<>>, raised |-> FALSE, ret |-> None]
    /\ check = NoCheck

EntryGet ==
    \E url \in GetUrls :
        /\ ret' = [called |-> TRUE, url |-> url, pre |-> db_entry_list,
                   raised |-> db_entry_get_raises(db_entry_list, url),
                   ret |-> IF db_entry_get_raises(db_entry_list, url) THEN None
                           ELSE db_entry_get(db_entry_list, url)]
        /\ UNCHANGED <<file, db_entry_list, archive_dirs, nextId, clock, last, check>>

NextGet == EntryGet

SpecGet == InitGet /\ [][NextGet]_vars

\* C22: db_entry_get returns the entry whose url is the given url when exactly one entry
\* of the list has it, returns None when no entry has it, and raises when more than one
\* entry has it, returning none of them; the list is left as it was.
FindByUrl ==
    ret.called =>
        LET having == {pos \in 1..Len(ret.pre) : ret.pre[pos].url = ret.url}
        IN /\ Cardinality(having) = 1 =>
                  /\ ~ret.raised
                  /\ ~ret.ret.isNone
                  /\ \A pos \in having : ret.ret.val = ret.pre[pos]
           /\ having = {} => ~ret.raised /\ ret.ret.isNone
           /\ Cardinality(having) > 1 => ret.raised /\ ret.ret.isNone
           /\ db_entry_list = ret.pre

\* a url that two entries of the list have was looked up
FindByUrlWitness ==
    /\ ret.called
    /\ ret.raised
    /\ \E p1, p2 \in 1..Len(db_entry_list) :
           p1 # p2 /\ db_entry_list[p1].url = ret.url /\ db_entry_list[p2].url = ret.url

\* C24: check with nothing selected.  When the search of the check command returns None
\* the command does not fail: it starts no probe and goes on to report zero broken
\* links.
CheckNothingSelected ==
    db_entry_list_search(db_load_db(file), check.search_args, FALSE).isNone =>
        /\ check.pc \in {"start", "collect", "done"}
        /\ Len(check.taskq) = 0
        /\ \A w \in 1..Len(check.workers) : check.workers[w] = 0
        /\ check.fail_count = 0

====
